---- MODULE Spec2Model ----
(***************************************************************************)
(* A model of summarize2.py: one run of the command-line program, from      *)
(* main() through Website.__init__ (static retrieval with a headless-       *)
(* browser fallback), summarize() and the top-level error handler.          *)
(*                                                                          *)
(* Python strings are TLA+ strings; a Python value that may be None or an   *)
(* unset attribute is a record [kind, s].  The collaborators (requests,     *)
(* selenium, the text-generation client) are the environment: each call     *)
(* either returns one of a bounded set of values or raises.                 *)
(***************************************************************************)
EXTENDS Integers, Sequences, FiniteSets, TLC

\* ------------------------------------------------------------------ bounds
MaxHostTokens == 1      \* URL inputs: tokens after the leading prefix
MaxTitleKids  == 1      \* children of a <title> element
MaxBodyKids   == 1      \* children of a <body> element
MaxSegments   == 2      \* segments in the service's response content list

\* ------------------------------------------------------------ Python values
PyStr(s) == [kind |-> "str", s |-> s]
PyNone   == [kind |-> "None", s |-> ""]
PyUnset  == [kind |-> "unset", s |-> ""]

\* str(v) as an f-string renders it
Fmt(v) == IF v.kind = "str" THEN v.s ELSE "None"

NoExc == [raised |-> FALSE, type |-> "", msg |-> ""]
Exc(t, m) == [raised |-> TRUE, type |-> t, msg |-> m]

\* ------------------------------------------------------------------ strings
CharAt(s, i) == SubSeq(s, i, i)

\* str.startswith(p)
StartsWith(s, p) == Len(s) >= Len(p) /\ SubSeq(s, 1, Len(p)) = p

\* str.startswith((p1, p2, ...))
StartsWithAny(s, ps) == \E p \in ps : StartsWith(s, p)

\* str.isspace() of one character. A TLA+ string holds the characters up to
\* U+00FF: these are all the whitespace str.strip() removes among them (the
\* set is written with \t \n \r \f and the raw characters U+000B, U+001C to
\* U+001F, U+0085 and U+00A0); the whitespace above U+00FF is outside the
\* alphabet of the model.
IsSpace(c) == c \in {" ", "\t", "\n", "\r", "\f", "", "", "", "", "", "", " "}

RECURSIVE LStrip(_)
LStrip(s) == IF Len(s) > 0 /\ IsSpace(CharAt(s, 1))
             THEN LStrip(SubSeq(s, 2, Len(s))) ELSE s

RECURSIVE RStrip(_)
RStrip(s) == IF Len(s) > 0 /\ IsSpace(CharAt(s, Len(s)))
             THEN RStrip(SubSeq(s, 1, Len(s) - 1)) ELSE s

\* str.strip()
Strip(s) == RStrip(LStrip(s))

\* sep.join(parts)
RECURSIVE Join(_, _)
Join(parts, sep) ==
    IF parts = <<>> THEN ""
    ELSE IF Len(parts) = 1 THEN parts[1]
    ELSE parts[1] \o sep \o Join(Tail(parts), sep)

\* ---------------------------------------------------------------- the DOM
Text(s)   == [tag |-> "#text", s |-> s, kids |-> <<>>]
El(t, ks) == [tag |-> t, s |-> "", kids |-> ks]
NoNode    == [tag |-> "#none", s |-> "", kids |-> <<>>]

\* soup.<name>: the first descendant element with that tag, or None
RECURSIVE FindIn(_, _)
FindIn(kids, name) ==
    IF kids = <<>> THEN NoNode
    ELSE LET h == Head(kids) IN
         IF h.tag = name THEN h
         ELSE LET r == FindIn(h.kids, name) IN
              IF r # NoNode THEN r ELSE FindIn(Tail(kids), name)

FindFirst(soup, name) == FindIn(soup.kids, name)

\* Tag.string: the single string child, followed through single element
\* children; None when there is not exactly one child
RECURSIVE TagString(_)
TagString(el) ==
    IF Len(el.kids) # 1 THEN PyNone
    ELSE LET c == el.kids[1] IN
         IF c.tag = "#text" THEN PyStr(c.s) ELSE TagString(c)

Irrelevant == {"script", "style", "img", "input", "iframe", "noscript"}

\* for irrelevant in soup.find_all([...]): irrelevant.decompose()
RECURSIVE Decompose(_)
Decompose(kids) ==
    IF kids = <<>> THEN <<>>
    ELSE LET h == Head(kids) IN
         IF h.tag \in Irrelevant THEN Decompose(Tail(kids))
         ELSE <<[h EXCEPT !.kids = Decompose(h.kids)]>> \o Decompose(Tail(kids))

\* the stripped, non-empty strings under a node, in document order
RECURSIVE AllStrings(_)
AllStrings(kids) ==
    IF kids = <<>> THEN <<>>
    ELSE LET h == Head(kids) IN
         (IF h.tag = "#text"
          THEN (IF Strip(h.s) = "" THEN <<>> ELSE <<Strip(h.s)>>)
          ELSE AllStrings(h.kids)) \o AllStrings(Tail(kids))

\* Tag.get_text(separator="\n", strip=True)
GetText(el) == Join(AllStrings(el.kids), "\n")

NoTitle == "No title found"

\* self.title = soup.title.string if soup.title else "No title found"
TitleOf(soup) ==
    LET t == FindFirst(soup, "title") IN
    IF t # NoNode THEN TagString(t) ELSE PyStr(NoTitle)

\* the soup object after the removal loop, which changes it in place
Cleaned(soup) == [soup EXCEPT !.kids = Decompose(soup.kids)]

\* self.text = soup.body.get_text(...) if soup.body else "", after the removal
TextOf(soup) ==
    LET b == FindFirst(Cleaned(soup), "body")
    IN  IF b # NoNode THEN PyStr(GetText(b)) ELSE PyStr("")

\* ------------------------------------------------------------ input spaces
SeqsUpTo(S, n) == UNION {[1..k -> S] : k \in 0..n}

Prefixes   == {"", "http://", "https://", "HTTP://", "http:/"}
HostTokens == {"a", "https://"}

RECURSIVE TokenStrings(_)
TokenStrings(n) ==
    IF n = 0 THEN {""}
    ELSE LET prev == TokenStrings(n - 1) IN
         prev \cup {p \o t : p \in prev, t \in HostTokens}

UrlInputs == {p \o h : p \in Prefixes, h \in TokenStrings(MaxHostTokens)}

TitleNodes == {Text("Example"), El("b", <<Text("Bold")>>), El("b", <<>>)}
BodyNodes  == {Text("\r\n Hello\r\n"), Text(" \r\n"),
               El("script", <<Text("js()")>>),
               El("div", <<Text("A "), El("p", <<Text("World")>>)>>)}

TitleOpts == {<<>>} \cup {<<El("title", k)>> : k \in SeqsUpTo(TitleNodes, MaxTitleKids)}
BodyOpts  == {<<>>} \cup {<<El("body", k)>> : k \in SeqsUpTo(BodyNodes, MaxBodyKids)}

\* the documents a parse can produce
Docs == {El("[document]", t \o b) : t \in TitleOpts, b \in BodyOpts}

Statuses == {200, 404, 500}

Segment(s) == [type |-> "text", text |-> s]
Segments   == {Segment("# Summary"), Segment("")}
Contents   == SeqsUpTo(Segments, MaxSegments)

Script == "summarize.py"

\* sys.argv as the shell can hand it over
Argvs == {<<Script>>}
         \cup {<<Script, u>> : u \in UrlInputs}
         \cup {<<Script, u, "extra">> : u \in {"a", "https://a"}}

\* ------------------------------------------------------------------- state
VARIABLES
    argv,         \* sys.argv
    pc,           \* the statement the run is at
    url,          \* Website.url
    title,        \* Website.title
    text,         \* Website.text
    response,     \* _fetch_static's local: the HTTP response
    soup,         \* the parsed document held by the running fetch method
    browser,      \* the headless browser: "none", "running" or "quit"
    exc,          \* the exception in flight, or caught by main as e
    prompt,       \* the user message handed to the service
    apiResponse,  \* summarize's local: the service's response
    summary,      \* main's local: the value summarize returned
    stdout,       \* the strings printed
    exitCode,     \* the process exit status, -1 while running
    calls,        \* how often each operation was entered
    caught        \* the exception the fallback's except clause swallowed

vars == <<argv, pc, url, title, text, response, soup, browser, exc, prompt,
          apiResponse, summary, stdout, exitCode, calls, caught>>

NoResponse    == [none |-> TRUE, status |-> 0, content |-> NoNode]
NoApiResponse == [none |-> TRUE, content |-> <<>>]

Init ==
    /\ argv \in Argvs
    /\ pc = "main"
    /\ url = PyUnset
    /\ title = PyUnset
    /\ text = PyUnset
    /\ response = NoResponse
    /\ soup = NoNode
    /\ browser = "none"
    /\ exc = NoExc
    /\ prompt = PyUnset
    /\ apiResponse = NoApiResponse
    /\ summary = PyUnset
    /\ stdout = <<>>
    /\ exitCode = -1
    /\ calls = [static |-> 0, dynamic |-> 0, launched |-> 0, process |-> 0,
                quit |-> 0, api |-> 0]
    /\ caught = NoExc

\* ------------------------------------------------------------------- main
UsageLines ==
    << "Usage: python summarize.py <url>",
       "Examples:",
       "  python summarize.py cnn.com",
       "  python summarize.py https://www.bbc.com",
       "\nNote: Make sure you have set the ANTHROPIC_API_KEY environment variable" >>

\* len(sys.argv) != 2
WrongArgCountMutTooFew(av) == Len(av) < 2

WrongArgCount(av) == Len(av) # 2

\* main, lines 178-184: the usage branch
Main_Usage ==
    /\ pc = "main"
    /\ WrongArgCount(argv)
    /\ stdout' = stdout \o UsageLines
    /\ exitCode' = 1
    /\ pc' = "exited"
    /\ UNCHANGED <<argv, url, title, text, response, soup, browser, exc, prompt,
                   apiResponse, summary, calls, caught>>

\* main, lines 186-188: url = sys.argv[1]; summarize(url) -> Website(url)
Main_Start ==
    /\ pc = "main"
    /\ ~WrongArgCount(argv)
    /\ pc' = "init"
    /\ UNCHANGED <<argv, url, title, text, response, soup, browser, exc, prompt,
                   apiResponse, summary, stdout, exitCode, calls, caught>>

\* ------------------------------------------------------- Website.__init__
Schemes == {"http://", "https://"}

NormalizeUrlMutAlways(u) == "https://" \o u

\* if not url.startswith(('http://', 'https://')): url = 'https://' + url
NormalizeUrl(u) == IF ~StartsWithAny(u, Schemes) THEN "https://" \o u ELSE u

Website_Normalize ==
    /\ pc = "init"
    /\ url' = PyStr(NormalizeUrl(argv[2]))
    /\ pc' = "fetch_static"
    /\ UNCHANGED <<argv, title, text, response, soup, browser, exc, prompt,
                   apiResponse, summary, stdout, exitCode, calls, caught>>

AfterStaticMutAlwaysDynamic(raised) == "fetch_dynamic"

\* try: self._fetch_static()  except Exception: self._fetch_dynamic()
AfterStatic(raised) == IF raised THEN "fetch_dynamic" ELSE "create"

Bump(f) == [calls EXCEPT ![f] = @ + 1]

\* ------------------------------------------------------ _process_content
\* _process_content returns, or raises at line 111, in the removal of lines
\* 114-115 before an element is removed, or at line 118
ProcessOutcomes == {"ok", "raise_start", "raise_mid", "raise_text"}
ProcessError == Exc("RuntimeError", "processing failed")

\* the attributes and the soup object after _process_content(soup)
ProcessContent(t, x, s, outcome) ==
    [ title  |-> IF outcome = "raise_start" THEN t ELSE TitleOf(s),
      text   |-> IF outcome = "ok" THEN TextOf(s) ELSE x,
      soup   |-> IF outcome \in {"ok", "raise_text"} THEN Cleaned(s) ELSE s,
      raised |-> outcome # "ok" ]

\* --------------------------------------------------------- _fetch_static
GetOutcomes ==
    {[exc |-> Exc("ConnectionError", "connection failed"), status |-> 0,
      content |-> NoNode]}
    \cup {[exc |-> NoExc, status |-> st, content |-> d] : st \in Statuses, d \in Docs}

StaticGetErrorMutStatus(r) ==
    IF ~r.exc.raised /\ r.status >= 400 THEN Exc("HTTPError", "bad status") ELSE r.exc

\* the exception requests.get(self.url) leaves _fetch_static with: the
\* transport error if any; the status is not looked at
StaticGetError(r) == r.exc

\* response = requests.get(self.url)
FetchStatic_Get ==
    /\ pc = "fetch_static"
    /\ calls' = Bump("static")
    /\ \E r \in GetOutcomes :
         LET e == StaticGetError(r) IN
         IF e.raised
         THEN /\ caught' = e
              /\ pc' = AfterStatic(TRUE)
              /\ UNCHANGED response
         ELSE /\ response' = [none |-> FALSE, status |-> r.status,
                              content |-> r.content]
              /\ pc' = "static_parse"
              /\ UNCHANGED caught
    /\ UNCHANGED <<argv, url, title, text, soup, browser, exc, prompt,
                   apiResponse, summary, stdout, exitCode>>

\* soup = BeautifulSoup(response.content, 'html.parser')
FetchStatic_Parse ==
    /\ pc = "static_parse"
    /\ \/ /\ soup' = response.content
          /\ pc' = "static_process"
          /\ UNCHANGED <<response, caught>>
       \/ /\ caught' = Exc("ParserRejectedMarkup", "malformed content")
          /\ response' = NoResponse
          /\ pc' = AfterStatic(TRUE)
          /\ UNCHANGED soup
    /\ UNCHANGED <<argv, url, title, text, browser, exc, prompt,
                   apiResponse, summary, stdout, exitCode, calls>>

\* self._process_content(soup)
FetchStatic_Process ==
    /\ pc = "static_process"
    /\ calls' = Bump("process")
    /\ \E o \in ProcessOutcomes :
         LET p == ProcessContent(title, text, soup, o) IN
         /\ title' = p.title
         /\ text' = p.text
         /\ IF p.raised
            THEN /\ caught' = ProcessError
                 /\ response' = NoResponse
                 /\ soup' = NoNode
                 /\ pc' = AfterStatic(TRUE)
            ELSE /\ soup' = p.soup
                 /\ pc' = "static_return"
                 /\ UNCHANGED <<caught, response>>
    /\ UNCHANGED <<argv, url, browser, exc, prompt, apiResponse, summary,
                   stdout, exitCode>>

\* _fetch_static returns, and with it __init__: the locals are gone
FetchStatic_Return ==
    /\ pc = "static_return"
    /\ response' = NoResponse
    /\ soup' = NoNode
    /\ pc' = AfterStatic(FALSE)
    /\ UNCHANGED <<argv, url, title, text, browser, exc, prompt, apiResponse,
                   summary, stdout, exitCode, calls, caught>>

\* -------------------------------------------------------- _fetch_dynamic
OnTryRaiseMutNoFinally == "except"

\* where an exception raised inside try: ... finally: driver.quit() goes
OnTryRaise == "dyn_finally"

AfterDynamicMutSwallow(raised) == "create"

\* _fetch_dynamic is called from the except clause, outside any try: what it
\* raises leaves __init__ and summarize and reaches main's handler
AfterDynamic(raised) == IF raised THEN "except" ELSE "create"

\* driver = webdriver.Chrome(service=..., options=chrome_options)
FetchDynamic_Launch ==
    /\ pc = "fetch_dynamic"
    /\ \/ /\ browser' = "running"
          /\ calls' = [calls EXCEPT !.dynamic = @ + 1, !.launched = @ + 1]
          /\ pc' = "dyn_get"
          /\ UNCHANGED exc
       \/ /\ exc' = Exc("WebDriverException", "cannot start chrome")
          /\ calls' = Bump("dynamic")
          /\ pc' = AfterDynamic(TRUE)
          /\ UNCHANGED browser
    /\ UNCHANGED <<argv, url, title, text, response, soup, prompt,
                   apiResponse, summary, stdout, exitCode, caught>>

\* driver.get(self.url); time.sleep(5)
FetchDynamic_Get ==
    /\ pc = "dyn_get"
    /\ \/ /\ pc' = "dyn_parse"
          /\ UNCHANGED exc
       \/ /\ exc' = Exc("WebDriverException", "navigation failed")
          /\ pc' = OnTryRaise
    /\ UNCHANGED <<argv, url, title, text, response, soup, browser, prompt,
                   apiResponse, summary, stdout, exitCode, calls, caught>>

\* soup = BeautifulSoup(driver.page_source, 'html.parser')
FetchDynamic_Parse ==
    /\ pc = "dyn_parse"
    /\ \/ /\ \E d \in Docs : soup' = d
          /\ pc' = "dyn_process"
          /\ UNCHANGED exc
       \/ /\ exc' = Exc("WebDriverException", "no page source")
          /\ pc' = OnTryRaise
          /\ UNCHANGED soup
    /\ UNCHANGED <<argv, url, title, text, response, browser, prompt,
                   apiResponse, summary, stdout, exitCode, calls, caught>>

\* self._process_content(soup)
FetchDynamic_Process ==
    /\ pc = "dyn_process"
    /\ calls' = Bump("process")
    /\ \E o \in ProcessOutcomes :
         LET p == ProcessContent(title, text, soup, o) IN
         /\ title' = p.title
         /\ text' = p.text
         /\ soup' = p.soup
         /\ exc' = (IF p.raised THEN ProcessError ELSE exc)
         /\ pc' = (IF p.raised THEN OnTryRaise ELSE "dyn_finally")
    /\ UNCHANGED <<argv, url, response, browser, prompt,
                   apiResponse, summary, stdout, exitCode, caught>>

\* finally: driver.quit(), then return or re-raise; an exception raised by
\* quit() itself replaces the one in flight
FetchDynamic_Finally ==
    /\ pc = "dyn_finally"
    /\ browser' = "quit"
    /\ calls' = Bump("quit")
    /\ soup' = NoNode
    /\ \/ /\ pc' = AfterDynamic(exc.raised)
          /\ UNCHANGED exc
       \/ /\ exc' = Exc("WebDriverException", "quit failed")
          /\ pc' = AfterDynamic(TRUE)
    /\ UNCHANGED <<argv, url, title, text, response, prompt,
                   apiResponse, summary, stdout, exitCode, caught>>

\* -------------------------------------------------------------- summarize
Instruction ==
    "The contents of this website is as follows; please provide a short summary of this website in markdown. If it includes news or announcements, then summarize these too.\n\n"

\* user_prompt_for(website)
UserPromptFor(t, x) ==
    "You are looking at a website titled " \o Fmt(t) \o ". " \o Instruction \o x.s

\* response = claude.messages.create(...)
Summarize_Create ==
    /\ pc = "create"
    /\ prompt' = PyStr(UserPromptFor(title, text))
    /\ calls' = Bump("api")
    /\ \/ /\ \E c \in Contents : apiResponse' = [none |-> FALSE, content |-> c]
          /\ pc' = "return"
          /\ UNCHANGED exc
       \/ /\ exc' = Exc("APIError", "authentication failed")
          /\ pc' = "except"
          /\ UNCHANGED apiResponse
    /\ UNCHANGED <<argv, url, title, text, response, soup, browser,
                   summary, stdout, exitCode, caught>>

FirstTextMutDefault(content) ==
    IF Len(content) = 0 THEN [exc |-> NoExc, value |-> PyStr("")]
    ELSE [exc |-> NoExc, value |-> PyStr(content[1].text)]

\* response.content[0].text
FirstText(content) ==
    IF Len(content) = 0
    THEN [exc |-> Exc("IndexError", "list index out of range"), value |-> PyUnset]
    ELSE [exc |-> NoExc, value |-> PyStr(content[1].text)]

\* return response.content[0].text
Summarize_Return ==
    /\ pc = "return"
    /\ LET r == FirstText(apiResponse.content) IN
         IF r.exc.raised
         THEN /\ exc' = r.exc
              /\ pc' = "except"
              /\ UNCHANGED summary
         ELSE /\ summary' = r.value
              /\ pc' = "print"
              /\ UNCHANGED exc
    /\ UNCHANGED <<argv, url, title, text, response, soup, browser, prompt,
                   apiResponse, stdout, exitCode, calls, caught>>

\* ------------------------------------------------------- main, lines 187-192
\* print(summary), and main returns
Main_Print ==
    /\ pc = "print"
    /\ stdout' = Append(stdout, summary.s)
    /\ exitCode' = 0
    /\ pc' = "exited"
    /\ UNCHANGED <<argv, url, title, text, response, soup, browser, exc, prompt,
                   apiResponse, summary, calls, caught>>

ErrorLine(e) == "Error: " \o e.msg

Main_ExceptMutNoExit ==
    /\ pc = "except"
    /\ stdout' = Append(stdout, ErrorLine(exc))
    /\ exitCode' = 0
    /\ pc' = "exited"
    /\ UNCHANGED <<argv, url, title, text, response, soup, browser, exc, prompt,
                   apiResponse, summary, calls, caught>>

\* except Exception as e: print(f"Error: {str(e)}"); sys.exit(1)
Main_Except ==
    /\ pc = "except"
    /\ stdout' = Append(stdout, ErrorLine(exc))
    /\ exitCode' = 1
    /\ pc' = "exited"
    /\ UNCHANGED <<argv, url, title, text, response, soup, browser, exc, prompt,
                   apiResponse, summary, calls, caught>>

\* ------------------------------------------------------------ the program
Next ==
    \/ Main_Usage
    \/ Main_Start
    \/ Website_Normalize
    \/ FetchStatic_Get
    \/ FetchStatic_Parse
    \/ FetchStatic_Process
    \/ FetchStatic_Return
    \/ FetchDynamic_Launch
    \/ FetchDynamic_Get
    \/ FetchDynamic_Parse
    \/ FetchDynamic_Process
    \/ FetchDynamic_Finally
    \/ Summarize_Create
    \/ Summarize_Return
    \/ Main_Print
    \/ Main_Except

Spec == Init /\ [][Next]_vars

\* ================================================================ claims
Last(q) == q[Len(q)]

\* __init__ has returned or raised: the run is in summarize's or main's code
PastConstruction == pc \in {"create", "return", "print", "except", "exited"}

\* C1: in one construction each retrieval strategy is attempted at most once;
\* dynamic retrieval has been invoked exactly once when the static step
\* raised, and never when the static step completed without raising.
C1_OneAttemptEach ==
    /\ calls.static <= 1
    /\ calls.dynamic <= 1
    /\ (calls.dynamic = 1 => caught.raised)
    /\ (~caught.raised => calls.dynamic = 0 /\ pc # "fetch_dynamic")
    /\ (caught.raised /\ pc # "fetch_dynamic" => calls.static = 1 /\ calls.dynamic = 1)

C1_Witness ==
    /\ pc = "exited"
    /\ caught.raised
    /\ calls.static = 1
    /\ calls.dynamic = 1

\* C2: whenever control is outside _fetch_dynamic, every browser that was
\* launched has been quit: a browser is running only between the launch and
\* the finally block, whether the steps in between returned or raised.
C2_BrowserReleased ==
    /\ (browser = "running" => pc \in {"dyn_get", "dyn_parse", "dyn_process", "dyn_finally"})
    /\ (PastConstruction => browser # "running" /\ calls.quit = calls.launched)
    /\ calls.quit <= calls.launched

C2_Witness ==
    /\ pc = "except"
    /\ exc.raised
    /\ calls.launched = 1
    /\ browser = "quit"

DynamicErrors == {"WebDriverException", "RuntimeError"}

\* C3: once construction is over, it returned normally when the static step
\* succeeded or the dynamic step succeeded after a static failure; when the
\* static step failed and the dynamic step raised, that error is the one in
\* flight to main's handler, with no further attempt of either strategy.
C3_FailsOnlyIfBothFail ==
    (PastConstruction /\ Len(argv) = 2) =>
        LET dynRaised == exc.raised /\ exc.type \in DynamicErrors
            returned  == calls.api >= 1 \/ pc = "create"
        IN  /\ (~caught.raised => returned /\ ~dynRaised)
            /\ (caught.raised /\ ~dynRaised => returned)
            /\ (caught.raised /\ dynRaised =>
                   /\ calls.api = 0
                   /\ pc \in {"except", "exited"}
                   /\ calls.static = 1 /\ calls.dynamic = 1
                   /\ (pc = "exited" => exitCode = 1 /\ Last(stdout) = ErrorLine(exc)))

C3_Witness ==
    /\ pc = "exited"
    /\ caught.raised
    /\ exc.raised
    /\ exc.type = "RuntimeError"
    /\ exitCode = 1

\* C4: the content-processing step runs at most once per invocation,
\* whatever step of the static path raises.
C4_ProcessedAtMostOnce == calls.process <= 1

HasScheme(u) ==
    \E p \in {"http://", "https://"} :
        /\ Len(u) >= Len(p)
        /\ \A i \in 1..Len(p) : CharAt(u, i) = CharAt(p, i)

\* C5: the stored url is "https://" followed by the input when the input has
\* no recognized scheme prefix, and the input itself when it has one;
\* normalizing the stored url again changes nothing.
C5_Normalization ==
    url.kind = "str" =>
        /\ (~HasScheme(argv[2]) => url.s = "https://" \o argv[2])
        /\ (HasScheme(argv[2]) => url.s = argv[2])
        /\ HasScheme(url.s)
        /\ NormalizeUrl(url.s) = url.s

C5_Witness ==
    /\ Len(argv) = 2
    /\ argv[2] = "HTTP://a"
    /\ url = PyStr("https://HTTP://a")

\* C6: the process exits with 0 exactly when extraction and summarization
\* both completed, and then the summary was printed; an exception leaving
\* summarize is printed as "Error: {message}" and the exit code is 1.
C6_ExitCodes ==
    pc = "exited" =>
        /\ exitCode \in {0, 1}
        /\ (exitCode = 0 <=>
               /\ Len(argv) = 2
               /\ title.kind # "unset" /\ text.kind = "str"
               /\ ~exc.raised
               /\ summary.kind = "str")
        /\ (exitCode = 0 => stdout = <<summary.s>>)
        /\ (exc.raised => exitCode = 1 /\ stdout = <<"Error: " \o exc.msg>>)

C6_Witness ==
    /\ pc = "exited"
    /\ exitCode = 0
    /\ stdout = <<"# Summary">>

NoCalls == \A f \in DOMAIN calls : calls[f] = 0

\* C7: with a wrong argument count the program prints the usage text and
\* exits with 1 without invoking the extractor or the text-generation service.
C7_UsageOnly ==
    Len(argv) # 2 =>
        /\ pc \in {"main", "exited"}
        /\ NoCalls
        /\ url.kind = "unset" /\ browser = "none" /\ prompt.kind = "unset"
        /\ (pc = "exited" => exitCode = 1 /\ stdout = UsageLines)

C7_Witness ==
    /\ Len(argv) = 3
    /\ pc = "exited"
    /\ exitCode = 1
    /\ stdout = UsageLines

\* C8: an empty content list makes summarize fail, never return a string, and
\* the program prints "Error: ..." and exits with 1; a non-empty list makes
\* summarize return the text of its first segment.
C8_FirstSegment ==
    (~apiResponse.none /\ pc \in {"print", "except", "exited"}) =>
        IF apiResponse.content = <<>>
        THEN /\ summary.kind = "unset"
             /\ exc.raised
             /\ pc # "print"
             /\ (pc = "exited" =>
                    /\ exitCode = 1
                    /\ Len(stdout) = 1
                    /\ StartsWith(stdout[1], "Error: "))
        ELSE /\ summary = PyStr(apiResponse.content[1].text)
             /\ pc # "except"
             /\ (pc = "exited" => exitCode = 0 /\ stdout = <<apiResponse.content[1].text>>)

C8_Witness ==
    /\ pc = "exited"
    /\ ~apiResponse.none
    /\ apiResponse.content = <<>>
    /\ exitCode = 1
    /\ stdout = <<"Error: list index out of range">>

\* the exceptions the calls of the static step raise
StaticStepErrors == {"ConnectionError", "ParserRejectedMarkup", "RuntimeError"}

\* C9: a static response with an error status is kept and processed like any
\* other: the document processed is its body, the fallback is not entered,
\* and the fallback is only ever entered after an exception of the static step.
C9_ErrorStatusAccepted ==
    /\ (~response.none /\ response.status >= 400) =>
           /\ pc \in {"static_parse", "static_process", "static_return"}
           /\ calls.dynamic = 0
           /\ ~caught.raised
           /\ (pc = "static_process" => soup = response.content)
           /\ (pc = "static_return" => soup = Cleaned(response.content))
           /\ (pc = "static_return" =>
                  title = TitleOf(response.content) /\ text = TextOf(response.content))
    /\ (pc = "fetch_dynamic" \/ calls.dynamic > 0) =>
           caught.raised /\ caught.type \in StaticStepErrors

C9_Witness ==
    /\ pc = "static_return"
    /\ response.status = 404
    /\ calls.dynamic = 0
    /\ calls.process = 1

\* the text of the document's title, None when it has none
TitleText(doc) ==
    LET t == FindFirst(doc, "title") IN
    IF t = NoNode THEN PyNone ELSE TagString(t)

\* a fetch method has processed soup to the end and not yet returned; the
\* removal loop has changed soup by then, but it removes no title element
Processed ==
    \/ pc = "static_return"
    \/ pc = "dyn_finally" /\ ~exc.raised

\* C10: after processing, title is the document's title text when it has
\* title text and "No title found" when it has none; it is always a string.
C10_TitleOrSentinel ==
    Processed =>
        /\ title.kind = "str"
        /\ title = (IF TitleText(soup) = PyNone THEN PyStr(NoTitle) ELSE TitleText(soup))

====
